---- MODULE Spec2Model ----
(***************************************************************************)
(* A model of config/database.go: the configuration store backed by a     *)
(* relational database (tables Configurations and ConfigurationFiles).    *)
(*                                                                         *)
(* Threads call the store's methods; each thread belongs to one store     *)
(* instance (a process), and all store instances share one database.      *)
(* Strings are sequences of one-character strings, so that parseDSN is    *)
(* computed as strings.SplitN computes it.                                 *)
(***************************************************************************)
EXTENDS Integers, Sequences, FiniteSets, TLC

----------------------------------------------------------------------------
(* Bounds of the model *)

\* number of distinct row identifiers model.NewId can hand out
MaxIds == 3
\* the largest value model.GetMillis returns
MaxClock == 1
\* the largest revision number of a configuration passed to Set
MaxRev == 1
\* the number of pieces a connection descriptor is assembled from
MaxParts == 3
\* the number of distinct short contents passed to SetFile
MaxBody == 2

\* the threads calling into the stores: two concurrent callers
Threads == {1, 2}
Stores == Threads
Ids == 1..MaxIds
Revs == 0..MaxRev

----------------------------------------------------------------------------
(* Connection descriptors and parseDSN *)

mysqlScheme == <<"m", "y", "s", "q", "l">>
postgresScheme == <<"p", "o", "s", "t", "g", "r", "e", "s">>
Separator == <<":", "/", "/">>

Pieces == { mysqlScheme, postgresScheme, Separator,
            <<"f", "t", "p">>, <<"x">>, <<":">>, <<"/">> }

RECURSIVE Concat(_)
Concat(parts) ==
    IF parts = <<>> THEN <<>> ELSE Head(parts) \o Concat(Tail(parts))

\* every descriptor assembled from at most MaxParts pieces
Descriptors ==
    { Concat(p) : p \in UNION { [1..n -> Pieces] : n \in 1..MaxParts } }

\* the descriptors of a deployment whose store can be constructed
MysqlDsn == mysqlScheme \o Separator \o <<"x">>
PostgresDsn == postgresScheme \o Separator \o <<"x">>

\* strings.Index: the first position where sep occurs in s, 0 when it does not
Index(s, sep) ==
    LET hits == { i \in 1..(Len(s) - Len(sep) + 1) :
                    SubSeq(s, i, i + Len(sep) - 1) = sep }
    IN  IF hits = {} THEN 0 ELSE CHOOSE i \in hits : \A j \in hits : i <= j

\* strings.SplitN(s, sep, 2)
SplitN2(s, sep) ==
    LET i == Index(s, sep)
    IN  IF i = 0 THEN <<s>>
        ELSE << SubSeq(s, 1, i - 1), SubSeq(s, i + Len(sep), Len(s)) >>

ParseOk(driver, source) ==
    [kind |-> "ok", driverName |-> driver, dataSourceName |-> source]
ParseError == [kind |-> "error", driverName |-> <<>>, dataSourceName |-> <<>>]
\* s[1] on a one-element slice: a run-time panic (index out of range)
ParsePanic == [kind |-> "panic", driverName |-> <<>>, dataSourceName |-> <<>>]

\* parseDSN in which the mysql branch keeps the scheme, as the postgres one does
parseDSNKeepScheme(dsn) ==
    LET s == SplitN2(dsn, Separator)
        scheme == s[1]
    IN  IF scheme = mysqlScheme
        THEN IF Len(s) < 2 THEN ParsePanic ELSE ParseOk(scheme, dsn)
        ELSE IF scheme = postgresScheme THEN ParseOk(scheme, dsn)
        ELSE ParseError

\* parseDSN: the error of line 130 is built and dropped, so a descriptor
\* without the separator goes on to the switch with s = <<dsn>>
parseDSN(dsn) ==
    LET s == SplitN2(dsn, Separator)
        scheme == s[1]
    IN  IF scheme = mysqlScheme
        THEN IF Len(s) < 2 THEN ParsePanic ELSE ParseOk(scheme, s[2])
        ELSE IF scheme = postgresScheme THEN ParseOk(scheme, dsn)
        ELSE ParseError

----------------------------------------------------------------------------
(* Configuration documents and their serialization *)

\* MaxWriteLength, the largest write MySQL's default max_allowed_packet takes
MaxWriteLength == 4 * 1024 * 1024

\* A configuration: the two SqlSettings fields Load overrides, a revision
\* standing for the rest of its content and Pad for the rest of its size.
Cfg(driver, source, rev, pad) ==
    [DriverName |-> driver, DataSource |-> source, Rev |-> rev, Pad |-> pad]

\* model.Config{} after SetDefaults
DefaultCfg == Cfg(mysqlScheme, <<"d">>, 0, 0)

\* marshalConfig: the serialized document and its length in bytes
marshalConfig(cfg) ==
    [doc |-> cfg,
     len |-> 2 + Len(cfg.DriverName) + Len(cfg.DataSource) + cfg.Rev + cfg.Pad]

\* the orchestrator's unmarshal of the bytes it is handed
unmarshalConfig(b) == b.doc

\* a nil or empty byte slice
NoBytes == [doc |-> Cfg(<<>>, <<>>, 0, 0), len |-> 0]

\* len(b)
ByteLen(b) == b.len

\* a comparison that never finds two byte slices equal
BytesNeverEqual(a, b) == FALSE

\* bytes.Equal
BytesEqual(a, b) == a = b

\* checkLength that does not look at the dialect
checkLengthAnyDialect(driver, length) == ~(length > MaxWriteLength)

\* checkLength with >= in place of >
checkLengthOffByOne(driver, length) ==
    ~(driver = mysqlScheme /\ length >= MaxWriteLength)

\* checkLength: TRUE when it returns nil
checkLength(driver, length) ==
    ~(driver = mysqlScheme /\ length > MaxWriteLength)

----------------------------------------------------------------------------
(* State *)

VARIABLES
    dsn,                \* the connection descriptor the deployment is given
    storeOf,            \* the store instance each thread calls into
    recording,          \* whether completed calls are recorded in last and plog
    ds,                 \* per store: "nil", "new" (under construction),
                        \*   "ready", "closed" or "panicked"
    driverName,         \* per store: DatabaseStore.driverName
    dataSourceName,     \* per store: DatabaseStore.dataSourceName
    configLock,         \* per store: the thread holding commonStore.configLock, or 0
    Configurations,     \* committed rows of table Configurations
    ConfigurationFiles, \* rows of table ConfigurationFiles
    clock,              \* model.GetMillis
    pc,                 \* per thread: where it is in the call it is making
    call,               \* per thread: the call in progress and its arguments
    tx,                 \* per thread: the transaction of its persist
    handed,             \* per thread: what its Load passes to commonStore.load
    last,               \* the call completed last, and its result
    plog                \* the persist call completed last

vars == << dsn, storeOf, recording, ds, driverName, dataSourceName, configLock,
           Configurations, ConfigurationFiles, clock, pc, call, tx, handed,
           last, plog >>

storeVars == << driverName, dataSourceName >>

\* what no call changes
env == << dsn, storeOf, recording >>

NoData == [body |-> 0, len |-> 0]

\* the file names passed to the file operations
Names == {"a", "b"}

\* the contents passed to SetFile: short ones, one of MaxWriteLength bytes and
\* one a byte longer
ShortData == { [body |-> b, len |-> 1] : b \in 1..MaxBody }

FileData ==
    ShortData \cup { [body |-> 1, len |-> MaxWriteLength],
                     [body |-> 1, len |-> MaxWriteLength + 1] }

NoCfg == Cfg(<<>>, <<>>, 0, 0)

\* alone: no other thread has been inside a file operation since this call began
NoCall == [op |-> "none", ctor |-> FALSE, cfg |-> NoCfg, name |-> "",
           data |-> NoData, createAt |-> 0, updateAt |-> 0, alone |-> FALSE]

NoTx == [state |-> "none", id |-> 0, value |-> NoBytes, createAt |-> 0,
         deact |-> {}, ins |-> FALSE, snap |-> {}, pre |-> {}]

NoHanded == [data |-> NoBytes, needsSave |-> FALSE]

NoLast == [t |-> 0, op |-> "none", ret |-> "none", fault |-> FALSE,
           handed |-> NoHanded, name |-> "", data |-> NoData, found |-> FALSE]

NoPersist == [t |-> 0, value |-> NoBytes, ret |-> "none", fault |-> FALSE,
              txEnd |-> "none", rollback |-> "none", undone |-> FALSE,
              inserted |-> FALSE, pre |-> {}]

----------------------------------------------------------------------------
(* The database: table Configurations *)

Row(id, value, createAt, active) ==
    [Id |-> id, Value |-> value, CreateAt |-> createAt, Active |-> active]

ActiveRows(T) == { r \in T : r.Active = "TRUE" }

\* SELECT Value FROM Configurations WHERE Active, scanned into a byte slice:
\* the committed active row's Value, or nil on sql.ErrNoRows
ActiveValue(T) ==
    IF ActiveRows(T) = {} THEN NoBytes
    ELSE (CHOOSE r \in ActiveRows(T) : TRUE).Value

SelectActiveValue == ActiveValue(Configurations)

TxOpen(u) == tx[u].state = "open"

\* a row another open transaction has updated and not yet committed
LockedByOther(t, id) ==
    \E u \in Threads \ {t} : TxOpen(u) /\ id \in tx[u].deact

\* another open transaction holds an uncommitted INSERT of an active row
PendingInsertByOther(t) ==
    \E u \in Threads \ {t} : TxOpen(u) /\ tx[u].ins

\* identifiers in the table or reserved by an open transaction
UsedIds ==
    { r.Id : r \in Configurations } \cup { tx[u].id : u \in { v \in Threads : TxOpen(v) } }

\* model.NewId: an identifier no row has
NewId == CHOOSE i \in Ids \ UsedIds : \A j \in Ids \ UsedIds : i <= j

\* the schema without UNIQUE on Active
ActiveUniqueNotDeclared(t) == {}

\* Active BOOLEAN NULL UNIQUE: the index entries an INSERT of an active row by
\* t's transaction collides with. A committed active row that t has not
\* deactivated is settled unless another open transaction has updated it; an
\* uncommitted INSERT of another transaction is not settled.
ActiveUnique(t) ==
    { [Id |-> r.Id, settled |-> ~LockedByOther(t, r.Id)] :
        r \in { q \in ActiveRows(Configurations) : q.Id \notin tx[t].deact } }
    \cup { [Id |-> tx[u].id, settled |-> FALSE] :
             u \in { v \in Threads \ {t} : TxOpen(v) /\ tx[v].ins } }

\* a commit of a transaction whose INSERT left the Active marker NULL
CommittedInactive(t) ==
    { IF r.Id \in tx[t].deact THEN [r EXCEPT !.Active = "NULL"] ELSE r :
        r \in Configurations }
    \cup (IF tx[t].ins
          THEN { Row(tx[t].id, tx[t].value, tx[t].createAt, "NULL") }
          ELSE {})

\* a commit of a transaction whose first statement deleted the active rows
\* instead of clearing their marker
CommittedDeleting(t) ==
    { r \in Configurations : r.Id \notin tx[t].deact }
    \cup (IF tx[t].ins
          THEN { Row(tx[t].id, tx[t].value, tx[t].createAt, "TRUE") }
          ELSE {})

\* the table once t's transaction commits
Committed(t) ==
    { IF r.Id \in tx[t].deact THEN [r EXCEPT !.Active = "NULL"] ELSE r :
        r \in Configurations }
    \cup (IF tx[t].ins
          THEN { Row(tx[t].id, tx[t].value, tx[t].createAt, "TRUE") }
          ELSE {})

----------------------------------------------------------------------------
(* Returning from a call *)

\* persist without its deferred Rollback: only Commit ends the transaction
TxLeftWithoutDefer(t) == IF pc[t] = "p_commit" THEN NoTx ELSE tx[t]

\* t's transaction once its call has returned: Commit, or else the deferred
\* Rollback, has ended it
TxLeft(t) == NoTx

\* The call op of thread t returns code: the orchestrator's deferred Unlock
\* runs, and NewDatabaseStore hands the store out only when its Load returned
\* nil.
Return(t, op, code, fault) ==
    /\ pc' = [pc EXCEPT ![t] = "idle"]
    /\ call' = [call EXCEPT ![t] = NoCall]
    /\ tx' = [tx EXCEPT ![t] = TxLeft(t)]
    /\ handed' = [handed EXCEPT ![t] = NoHanded]
    /\ configLock' = [configLock EXCEPT ![storeOf[t]] = IF @ = t THEN 0 ELSE @]
    /\ ds' = IF call[t].ctor
             THEN [ds EXCEPT ![storeOf[t]] = IF code = "nil" THEN "ready" ELSE "nil"]
             ELSE ds
    /\ last' = IF recording
                THEN [NoLast EXCEPT !.t = t, !.op = op, !.ret = code,
                                    !.fault = fault, !.handed = handed[t]]
                ELSE last

\* what the deferred tx.Rollback() may return when it ends the transaction: nil
\* or an error of its own (the connection is lost; the server then discards
\* the transaction)
RollbackOutcomes == {"nil", "ErrRollback"}

\* persist with a named result that the deferred function overwrites with the
\* rollback's error
persistResultOverridden(code, rollback) ==
    IF rollback = "ErrRollback" THEN "ErrRollback" ELSE code

\* what persist returns: the value of its return statement; the deferred
\* function logs the rollback's error, sql.ErrTxDone excepted, and assigns
\* nothing
persistResult(code, rollback) == code

\* persist returns code, after its Commit or its deferred Rollback (txEnd) ended
\* the transaction it had begun, the Rollback returning rollback; and the
\* orchestrator returns persist's result
PersistReturn(t, value, code, fault, txEnd, rollback) ==
    /\ Return(t, call[t].op, persistResult(code, rollback), fault)
    /\ plog' = IF recording
                THEN [t |-> t, value |-> value,
                      ret |-> persistResult(code, rollback), fault |-> fault,
                      txEnd |-> txEnd, rollback |-> rollback,
                      undone |-> txEnd = "rollback" /\ tx[t].deact # {},
                      inserted |-> txEnd = "commit" /\ tx[t].ins,
                      pre |-> IF txEnd = "none" THEN Configurations ELSE tx[t].pre]
                ELSE plog

\* a rollback that leaves the transaction's UPDATE in the table
RolledBackButUpdate(t) ==
    { IF r.Id \in tx[t].deact THEN [r EXCEPT !.Active = "NULL"] ELSE r :
        r \in Configurations }

\* the table once t's transaction is rolled back: nothing it did remains
RolledBack(t) == Configurations

\* persist returns from inside its transaction without a Commit: the deferred
\* Rollback discards what the transaction did
PersistFail(t, code, fault) ==
    /\ \E rollback \in RollbackOutcomes :
           PersistReturn(t, tx[t].value, code, fault, "rollback", rollback)
    /\ Configurations' = RolledBack(t)
    /\ UNCHANGED << env, storeVars, ConfigurationFiles, clock >>

----------------------------------------------------------------------------
(* NewDatabaseStore *)

\* NewDatabaseStore(dsn) called by thread t for its store; ok: the DDL of
\* initializeConfigurationsTable succeeds
NewDatabaseStore(t, ok) ==
    LET s == storeOf[t]
        r == parseDSN(dsn)
        done(code, fault) ==
            last' = IF recording
                    THEN [NoLast EXCEPT !.t = t, !.op = "New", !.ret = code,
                                        !.fault = fault]
                    ELSE last
    IN  /\ pc[t] = "idle"
        /\ ds[s] = "nil"
        /\ IF r.kind = "error"
           THEN /\ done("ErrDSN", FALSE)
                /\ UNCHANGED << ds, storeVars, pc, call >>
           ELSE IF r.kind = "panic"
           THEN /\ done("panic", FALSE)
                /\ ds' = [ds EXCEPT ![s] = "panicked"]
                /\ UNCHANGED << storeVars, pc, call >>
           ELSE \* sqlx.Open, the DatabaseStore, initializeConfigurationsTable
                /\ driverName' = [driverName EXCEPT ![s] = r.driverName]
                /\ dataSourceName' = [dataSourceName EXCEPT ![s] = r.dataSourceName]
                /\ IF ~ok
                   THEN /\ done("ErrInit", TRUE)
                        /\ UNCHANGED << ds, pc, call >>
                   ELSE /\ ds' = [ds EXCEPT ![s] = "new"]
                        /\ call' = [call EXCEPT ![t] =
                                      [NoCall EXCEPT !.op = "New", !.ctor = TRUE]]
                        /\ pc' = [pc EXCEPT ![t] = "load"]
                        /\ UNCHANGED last
        /\ UNCHANGED << env, configLock, Configurations,
                        ConfigurationFiles, clock, tx, handed, plog >>

----------------------------------------------------------------------------
(* Load *)

\* the defaults without the store's own driver and data source
BootstrapCfgNoOverride(s) == DefaultCfg

\* the default configuration Load builds when it finds no active configuration
BootstrapCfg(s) ==
    [DefaultCfg EXCEPT !.DriverName = driverName[s],
                       !.DataSource = dataSourceName[s]]

\* Load, line 227: the query for the active row is issued, outside any lock;
\* ok: the query succeeds
Load(t, ok) ==
    LET s == storeOf[t]
        op == IF pc[t] = "load" THEN "New" ELSE "Load"
    IN  /\ \/ pc[t] = "idle" /\ ds[s] \in {"ready", "closed"}
           \/ pc[t] = "load"
        /\ IF ds[s] = "closed" \/ ~ok
           THEN Return(t, op, "ErrQuery", ds[s] # "closed")
           ELSE /\ handed' = [handed EXCEPT ![t] =
                                [data |-> SelectActiveValue, needsSave |-> FALSE]]
                /\ call' = [call EXCEPT ![t].op = op]
                /\ pc' = [pc EXCEPT ![t] = "load_scan"]
                /\ UNCHANGED << ds, configLock, tx, last >>
        /\ UNCHANGED << env, storeVars, Configurations,
                        ConfigurationFiles, clock, plog >>

\* Load, lines 228-249: the row is scanned; an empty result is replaced by the
\* serialized defaults, to be saved
LoadScan(t) ==
    LET s == storeOf[t]
    IN  /\ pc[t] = "load_scan"
        /\ handed' = [handed EXCEPT ![t] =
                        IF ByteLen(handed[t].data) = 0
                        THEN [data |-> marshalConfig(BootstrapCfg(s)),
                              needsSave |-> TRUE]
                        ELSE @]
        /\ pc' = [pc EXCEPT ![t] = "cs_load"]
        /\ UNCHANGED << env, ds, storeVars, configLock, Configurations,
                        ConfigurationFiles, clock, call, tx, last, plog >>

\* threads that hold the orchestrator's lock and have yet to draw their row id
AboutToPersist == { u \in Threads : pc[u] = "p_begin" }

CanPersist == Cardinality(Ids \ UsedIds) > Cardinality(AboutToPersist)

\* commonStore.load(reader, needsSave, validate, persist): under the lock, the
\* bytes are adopted and, with needsSave, persisted
csLoad(t) ==
    LET s == storeOf[t]
    IN  /\ pc[t] = "cs_load"
        /\ configLock[s] = 0
        /\ IF handed[t].needsSave
           THEN /\ CanPersist
                /\ configLock' = [configLock EXCEPT ![s] = t]
                /\ call' = [call EXCEPT ![t].cfg = unmarshalConfig(handed[t].data)]
                /\ pc' = [pc EXCEPT ![t] = "p_begin"]
                /\ UNCHANGED << ds, tx, last, handed >>
           ELSE Return(t, call[t].op, "nil", FALSE)
        /\ UNCHANGED << env, storeVars, Configurations,
                        ConfigurationFiles, clock, plog >>

----------------------------------------------------------------------------
(* Set and persist *)

\* the configurations passed to Set on store s: one of every revision
SetInputs(s) ==
    { Cfg(driverName[s], dataSourceName[s], r, 0) : r \in Revs }

\* two more, padded to serialize to MaxWriteLength bytes and to one byte more
LongInputs(s) ==
    LET base == Cfg(driverName[s], dataSourceName[s], 0, 0)
        room == MaxWriteLength - ByteLen(marshalConfig(base))
    IN  { [base EXCEPT !.Pad = room], [base EXCEPT !.Pad = room + 1] }

\* Set -> commonStore.set(newCfg, true, validate, persist): takes the lock and
\* calls persist
Set(t, cfg) ==
    LET s == storeOf[t]
    IN  /\ pc[t] = "idle"
        /\ ds[s] \in {"ready", "closed"}
        /\ configLock[s] = 0
        /\ CanPersist
        /\ configLock' = [configLock EXCEPT ![s] = t]
        /\ call' = [call EXCEPT ![t] = [NoCall EXCEPT !.op = "Set", !.cfg = cfg]]
        /\ pc' = [pc EXCEPT ![t] = "p_begin"]
        /\ UNCHANGED << env, ds, storeVars, Configurations,
                        ConfigurationFiles, clock, tx, handed, last, plog >>

\* persist, lines 165-182: serialize, draw the id and the time, check the
\* length, begin the transaction; ok: Beginx succeeds
persistBegin(t, ok) ==
    LET s == storeOf[t]
        b == marshalConfig(call[t].cfg)
    IN  /\ pc[t] = "p_begin"
        /\ IF ~checkLength(driverName[s], ByteLen(b))
           THEN PersistReturn(t, b, "ErrLength", FALSE, "none", "none")
           ELSE IF ds[s] = "closed" \/ ~ok
           THEN PersistReturn(t, b, "ErrBegin", ds[s] # "closed", "none",
                              "none")
           ELSE /\ tx' = [tx EXCEPT ![t] =
                            [NoTx EXCEPT !.state = "open", !.id = NewId,
                                         !.value = b, !.createAt = clock,
                                         !.pre = IF recording THEN Configurations
                                                 ELSE {}]]
                /\ pc' = [pc EXCEPT ![t] = "p_query"]
                /\ UNCHANGED << ds, configLock, call, handed, last, plog >>
        /\ UNCHANGED << env, storeVars, Configurations,
                        ConfigurationFiles, clock >>

\* persist, lines 198-205: the active value is read through the pool, outside
\* the transaction, and an identical value ends the call; ok: the query succeeds
persistQuery(t, ok) ==
    /\ pc[t] = "p_query"
    /\ IF ~ok
       THEN PersistFail(t, "ErrQuery", TRUE)
       ELSE IF BytesEqual(SelectActiveValue, tx[t].value)
       THEN PersistFail(t, "nil", FALSE)
       ELSE /\ pc' = [pc EXCEPT ![t] = "p_update"]
            /\ UNCHANGED << env, ds, storeVars, configLock,
                            Configurations, ConfigurationFiles, clock, call, tx,
                            handed, last, plog >>

\* the identifiers UPDATE ... WHERE Active finds among the committed rows
ActiveIds == { r.Id : r \in ActiveRows(Configurations) }

\* The UPDATE waits for a row lock: a row it is to change was changed by
\* another open transaction; on MySQL, whose UPDATE reads and locks the current
\* index entries, also an uncommitted INSERT of an active row.
UpdateBlocked(t, targets) ==
    \/ \E id \in targets : LockedByOther(t, id)
    \/ driverName[storeOf[t]] = mysqlScheme /\ PendingInsertByOther(t)

\* the UPDATE of line 207 run through the pool (ds.db.Exec), outside the
\* transaction: it commits on its own
ExecUpdateOnPool(t, targets) ==
    /\ Configurations' =
           { IF r.Id \in targets THEN [r EXCEPT !.Active = "NULL"] ELSE r :
               r \in Configurations }
    /\ tx' = [tx EXCEPT ![t].snap = {}]

\* tx.Exec("UPDATE Configurations SET Active = NULL WHERE Active"): the rows are
\* changed inside t's transaction, and locked by it
ExecUpdate(t, targets) ==
    /\ tx' = [tx EXCEPT ![t].deact = targets, ![t].snap = {}]
    /\ UNCHANGED Configurations

\* persist, line 207; ok: the statement succeeds
persistUpdate(t, ok) ==
    /\ pc[t] = "p_update"
    /\ IF ~ok
       THEN PersistFail(t, "ErrUpdate", TRUE)
       ELSE /\ IF UpdateBlocked(t, ActiveIds)
               THEN /\ tx' = [tx EXCEPT ![t].snap = ActiveIds]
                    /\ pc' = [pc EXCEPT ![t] = "p_update_wait"]
                    /\ UNCHANGED Configurations
               ELSE /\ ExecUpdate(t, ActiveIds)
                    /\ pc' = [pc EXCEPT ![t] = "p_insert"]
            /\ UNCHANGED << env, ds, storeVars, configLock,
                            ConfigurationFiles, clock, call, handed, last, plog >>

\* persist, line 207, after waiting for a row lock. Postgres re-checks the rows
\* of the statement's snapshot; MySQL reads the current rows. ok: the statement
\* succeeds (it fails on a lock timeout or a deadlock).
persistUpdateResume(t, ok) ==
    LET mysql == driverName[storeOf[t]] = mysqlScheme
        targets == IF mysql THEN ActiveIds ELSE tx[t].snap \cap ActiveIds
    IN  /\ pc[t] = "p_update_wait"
        /\ IF ~ok
           THEN PersistFail(t, "ErrUpdate", TRUE)
           ELSE /\ ~UpdateBlocked(t, IF mysql THEN ActiveIds ELSE tx[t].snap)
                /\ ExecUpdate(t, targets)
                /\ pc' = [pc EXCEPT ![t] = "p_insert"]
                /\ UNCHANGED << env, ds, storeVars, configLock,
                                ConfigurationFiles, clock, call, handed, last,
                                plog >>

\* persist, line 211: the INSERT collides with a settled active row (duplicate
\* key), waits while the colliding entry is not settled, or succeeds; ok: no
\* other failure
persistInsert(t, ok) ==
    /\ pc[t] = "p_insert"
    /\ IF ~ok
       THEN PersistFail(t, "ErrInsert", TRUE)
       ELSE IF \E e \in ActiveUnique(t) : e.settled
       THEN PersistFail(t, "ErrInsert", FALSE)
       ELSE /\ ActiveUnique(t) = {}
            /\ tx' = [tx EXCEPT ![t].ins = TRUE]
            /\ pc' = [pc EXCEPT ![t] = "p_commit"]
            /\ UNCHANGED << env, ds, storeVars, configLock,
                            Configurations, ConfigurationFiles, clock, call,
                            handed, last, plog >>

\* persist, lines 215-219; ok: Commit succeeds. After a Commit, failed or
\* not, the deferred Rollback returns sql.ErrTxDone and changes nothing; a
\* failed Commit leaves nothing of the transaction in the table.
persistCommit(t, ok) ==
    /\ pc[t] = "p_commit"
    /\ IF ~ok
       THEN /\ PersistReturn(t, tx[t].value, "ErrCommit", TRUE, "rollback",
                             "ErrTxDone")
            /\ Configurations' = RolledBack(t)
            /\ UNCHANGED << env, storeVars, ConfigurationFiles, clock >>
       ELSE /\ Configurations' = Committed(t)
            /\ PersistReturn(t, tx[t].value, "nil", FALSE, "commit", "ErrTxDone")
            /\ UNCHANGED << env, storeVars, ConfigurationFiles, clock >>

----------------------------------------------------------------------------
(* The file store: table ConfigurationFiles *)

FileRow(name, data, createAt, updateAt) ==
    [Name |-> name, Data |-> data, CreateAt |-> createAt, UpdateAt |-> updateAt]

FilesNamed(name) == { r \in ConfigurationFiles : r.Name = name }

\* a file operation of thread t returns
ReturnFile(t, op, code, fault, name, data, found) ==
    /\ pc' = [pc EXCEPT ![t] = "idle"]
    /\ call' = [u \in Threads |->
                  IF u = t THEN NoCall ELSE [call[u] EXCEPT !.alone = FALSE]]
    /\ last' = IF recording
                THEN [NoLast EXCEPT !.t = t, !.op = op, !.ret = code,
                                    !.fault = fault, !.name = name, !.data = data,
                                    !.found = found]
                ELSE last

\* the schema without PRIMARY KEY on Name
NamePrimaryKeyNotDeclared(name) == {}

\* Name VARCHAR(64) PRIMARY KEY: the rows an INSERT of name collides with
NamePrimaryKey(name) == FilesNamed(name)

\* result.RowsAffected() of the UPDATE of line 286: Postgres counts the rows
\* the statement matched; MySQL (without clientFoundRows in the DSN) counts the
\* rows whose values it changed
RowsAffected(driver, name, data, updateAt) ==
    IF driver = mysqlScheme
    THEN Cardinality({ r \in FilesNamed(name) :
                         r.Data # data \/ r.UpdateAt # updateAt })
    ELSE Cardinality(FilesNamed(name))

\* SetFile, lines 273-296: the length check, the two readings of the clock, the
\* UPDATE by name and the count of the rows it affected; ok: the UPDATE succeeds
SetFile(t, name, data, updateAt, ok) ==
    LET s == storeOf[t]
        createAt == clock
    IN  /\ pc[t] = "idle"
        /\ ds[s] \in {"ready", "closed"}
        /\ updateAt \in {clock, clock + 1}
        /\ updateAt <= MaxClock
        /\ IF ~checkLength(driverName[s], data.len)
           THEN /\ ReturnFile(t, "SetFile", "ErrLength", FALSE, name, data, FALSE)
                /\ UNCHANGED << ConfigurationFiles, clock >>
           ELSE /\ clock' = updateAt
                /\ IF ds[s] = "closed" \/ ~ok
                   THEN /\ ReturnFile(t, "SetFile", "ErrUpdate", ds[s] # "closed",
                                      name, data, FALSE)
                        /\ UNCHANGED ConfigurationFiles
                   ELSE /\ ConfigurationFiles' =
                              { IF r.Name = name
                                THEN [r EXCEPT !.Data = data, !.UpdateAt = updateAt]
                                ELSE r : r \in ConfigurationFiles }
                        /\ IF RowsAffected(driverName[s], name, data, updateAt) > 0
                           THEN ReturnFile(t, "SetFile", "nil", FALSE, name, data,
                                           FALSE)
                           ELSE /\ pc' = [pc EXCEPT ![t] = "sf_insert"]
                                /\ call' = [u \in Threads |->
                                      IF u = t
                                      THEN [NoCall EXCEPT
                                              !.op = "SetFile",
                                              !.name = name,
                                              !.data = data,
                                              !.createAt = createAt,
                                              !.updateAt = updateAt,
                                              !.alone = \A v \in Threads \ {t} :
                                                           pc[v] = "idle"]
                                      ELSE [call[u] EXCEPT !.alone = FALSE]]
                                /\ UNCHANGED last
        /\ UNCHANGED << env, ds, storeVars, configLock, Configurations,
                        tx, handed, plog >>

\* SetFile, lines 298-303: the INSERT after an UPDATE that affected no row;
\* ok: nothing but a duplicate key makes it fail
SetFileInsert(t, ok) ==
    LET s == storeOf[t]
        c == call[t]
    IN  /\ pc[t] = "sf_insert"
        /\ IF ds[s] = "closed" \/ ~ok
           THEN /\ ReturnFile(t, "SetFile", "ErrInsert", ds[s] # "closed", c.name,
                              c.data, FALSE)
                /\ UNCHANGED ConfigurationFiles
           ELSE IF NamePrimaryKey(c.name) # {}
           THEN /\ ReturnFile(t, "SetFile", "ErrInsert", FALSE, c.name, c.data,
                              FALSE)
                /\ UNCHANGED ConfigurationFiles
           ELSE /\ ConfigurationFiles' = ConfigurationFiles \cup
                      { FileRow(c.name, c.data, c.createAt, c.updateAt) }
                /\ ReturnFile(t, "SetFile", "nil", FALSE, c.name, c.data, FALSE)
        /\ UNCHANGED << env, ds, storeVars, configLock, Configurations,
                        clock, tx, handed, plog >>

\* GetFile; ok: the query succeeds. No row: Scan returns sql.ErrNoRows.
GetFile(t, name, ok) ==
    LET s == storeOf[t]
    IN  /\ pc[t] = "idle"
        /\ ds[s] \in {"ready", "closed"}
        /\ IF ds[s] = "closed" \/ ~ok
           THEN ReturnFile(t, "GetFile", "ErrScan", ds[s] # "closed", name, NoData,
                           FALSE)
           ELSE IF FilesNamed(name) = {}
           THEN ReturnFile(t, "GetFile", "ErrScan", FALSE, name, NoData, FALSE)
           ELSE \E r \in FilesNamed(name) :
                    ReturnFile(t, "GetFile", "nil", FALSE, name, r.Data, TRUE)
        /\ UNCHANGED << env, ds, storeVars, configLock, Configurations,
                        ConfigurationFiles, clock, tx, handed, plog >>

\* HasFile; ok: the count query succeeds
HasFile(t, name, ok) ==
    LET s == storeOf[t]
    IN  /\ pc[t] = "idle"
        /\ ds[s] \in {"ready", "closed"}
        /\ IF ds[s] = "closed" \/ ~ok
           THEN ReturnFile(t, "HasFile", "ErrScan", ds[s] # "closed", name, NoData,
                           FALSE)
           ELSE ReturnFile(t, "HasFile", "nil", FALSE, name, NoData,
                           Cardinality(FilesNamed(name)) # 0)
        /\ UNCHANGED << env, ds, storeVars, configLock, Configurations,
                        ConfigurationFiles, clock, tx, handed, plog >>

\* RemoveFile that reports a DELETE that removed no row as an error
RemoveFileStrict(t, name, ok) ==
    LET s == storeOf[t]
    IN  /\ pc[t] = "idle"
        /\ ds[s] \in {"ready", "closed"}
        /\ IF ds[s] = "closed" \/ ~ok
           THEN /\ ReturnFile(t, "RemoveFile", "ErrRemove", ds[s] # "closed", name,
                              NoData, FALSE)
                /\ UNCHANGED ConfigurationFiles
           ELSE /\ ConfigurationFiles' = ConfigurationFiles \ FilesNamed(name)
                /\ ReturnFile(t, "RemoveFile",
                              IF FilesNamed(name) = {} THEN "ErrRemove" ELSE "nil",
                              FALSE, name, NoData, FALSE)
        /\ UNCHANGED << env, ds, storeVars, configLock, Configurations,
                        clock, tx, handed, plog >>

\* RemoveFile; ok: the DELETE succeeds
RemoveFile(t, name, ok) ==
    LET s == storeOf[t]
    IN  /\ pc[t] = "idle"
        /\ ds[s] \in {"ready", "closed"}
        /\ IF ds[s] = "closed" \/ ~ok
           THEN /\ ReturnFile(t, "RemoveFile", "ErrRemove", ds[s] # "closed", name,
                              NoData, FALSE)
                /\ UNCHANGED ConfigurationFiles
           ELSE /\ ConfigurationFiles' = ConfigurationFiles \ FilesNamed(name)
                /\ ReturnFile(t, "RemoveFile", "nil", FALSE, name, NoData, FALSE)
        /\ UNCHANGED << env, ds, storeVars, configLock, Configurations,
                        clock, tx, handed, plog >>

----------------------------------------------------------------------------
(* Close *)

\* Close: under the orchestrator's lock, the pool is closed
Close(t) ==
    LET s == storeOf[t]
    IN  /\ pc[t] = "idle"
        /\ ds[s] = "ready"
        /\ configLock[s] = 0
        /\ ds' = [ds EXCEPT ![s] = "closed"]
        /\ last' = IF recording
                    THEN [NoLast EXCEPT !.t = t, !.op = "Close", !.ret = "nil"]
                    ELSE last
        /\ UNCHANGED << env, storeVars, configLock, Configurations,
                        ConfigurationFiles, clock, pc, call, tx, handed, plog >>

\* time passes
Tick ==
    /\ clock < MaxClock
    /\ clock' = clock + 1
    /\ UNCHANGED << env, ds, storeVars, configLock, Configurations,
                    ConfigurationFiles, pc, call, tx, handed, last, plog >>

----------------------------------------------------------------------------
(* Specifications *)

InitWith(descriptors, topologies, rec) ==
    /\ dsn \in descriptors
    /\ storeOf \in topologies
    /\ recording = rec
    /\ ds = [s \in Stores |-> "nil"]
    /\ driverName = [s \in Stores |-> <<>>]
    /\ dataSourceName = [s \in Stores |-> <<>>]
    /\ configLock = [s \in Stores |-> 0]
    /\ Configurations = {}
    /\ ConfigurationFiles = {}
    /\ clock = 0
    /\ pc = [t \in Threads |-> "idle"]
    /\ call = [t \in Threads |-> NoCall]
    /\ tx = [t \in Threads |-> NoTx]
    /\ handed = [t \in Threads |-> NoHanded]
    /\ last = NoLast
    /\ plog = NoPersist

OneStore == [t \in Threads |-> 1]
OwnStores == [t \in Threads |-> t]

\* Threads of one process or of peer processes, on a fresh database
Init == InitWith({MysqlDsn, PostgresDsn}, {OneStore, OwnStores}, FALSE)

Next ==
    \/ \E t \in Threads, ok \in BOOLEAN : NewDatabaseStore(t, ok)
    \/ \E t \in Threads, ok \in BOOLEAN : Load(t, ok)
    \/ \E t \in Threads : LoadScan(t)
    \/ \E t \in Threads : csLoad(t)
    \/ \E t \in Threads : \E cfg \in SetInputs(storeOf[t]) : Set(t, cfg)
    \/ \E t \in Threads, ok \in BOOLEAN : persistBegin(t, ok)
    \/ \E t \in Threads, ok \in BOOLEAN : persistQuery(t, ok)
    \/ \E t \in Threads, ok \in BOOLEAN : persistUpdate(t, ok)
    \/ \E t \in Threads, ok \in BOOLEAN : persistUpdateResume(t, ok)
    \/ \E t \in Threads, ok \in BOOLEAN : persistInsert(t, ok)
    \/ \E t \in Threads, ok \in BOOLEAN : persistCommit(t, ok)
    \/ \E t \in Threads : Close(t)

Spec == Init /\ [][Next]_vars

\* One thread on a fresh database: calls made one at a time, with no other
\* writer. Set is also given the two long configurations, and time passes.
InitSeq == InitWith({MysqlDsn, PostgresDsn}, {OneStore}, TRUE)

NextSeq ==
    \/ \E ok \in BOOLEAN : NewDatabaseStore(1, ok)
    \/ \E ok \in BOOLEAN : Load(1, ok)
    \/ LoadScan(1)
    \/ csLoad(1)
    \/ \E cfg \in SetInputs(1) \cup LongInputs(1) : Set(1, cfg)
    \/ \E ok \in BOOLEAN : persistBegin(1, ok)
    \/ \E ok \in BOOLEAN : persistQuery(1, ok)
    \/ \E ok \in BOOLEAN : persistUpdate(1, ok)
    \/ \E ok \in BOOLEAN : persistInsert(1, ok)
    \/ \E ok \in BOOLEAN : persistCommit(1, ok)
    \/ Close(1)
    \/ Tick

SpecSeq == InitSeq /\ [][NextSeq]_vars

\* the Values of an active row the database may hold before the store is
\* constructed: serialized configurations, and the empty string that
\* Value TEXT NOT NULL admits
ExistingValues ==
    { marshalConfig(Cfg(mysqlScheme, <<"x">>, r, 0)) : r \in Revs } \cup { NoBytes }

\* One thread on a database whose Configurations table already holds an
\* active row
InitExisting ==
    /\ dsn \in {MysqlDsn, PostgresDsn}
    /\ storeOf = OneStore
    /\ recording = TRUE
    /\ ds = [s \in Stores |-> "nil"]
    /\ driverName = [s \in Stores |-> <<>>]
    /\ dataSourceName = [s \in Stores |-> <<>>]
    /\ configLock = [s \in Stores |-> 0]
    /\ \E v \in ExistingValues : Configurations = { Row(1, v, 0, "TRUE") }
    /\ ConfigurationFiles = {}
    /\ clock = 0
    /\ pc = [t \in Threads |-> "idle"]
    /\ call = [t \in Threads |-> NoCall]
    /\ tx = [t \in Threads |-> NoTx]
    /\ handed = [t \in Threads |-> NoHanded]
    /\ last = NoLast
    /\ plog = NoPersist

SpecExisting == InitExisting /\ [][NextSeq]_vars

\* Store construction from any descriptor
InitDSN == InitWith(Descriptors, {OneStore}, TRUE)

NextDSN == \E ok \in BOOLEAN : NewDatabaseStore(1, ok)

SpecDSN == InitDSN /\ [][NextDSN]_vars

\* The state NewDatabaseStore leaves on a fresh database when nothing fails:
\* the store is ready and its bootstrapped configuration is the active row.
InitFilesWith(topologies) ==
    LET r == parseDSN(dsn)
        boot == marshalConfig([DefaultCfg EXCEPT !.DriverName = r.driverName,
                                                 !.DataSource = r.dataSourceName])
    IN  /\ dsn \in {MysqlDsn, PostgresDsn}
        /\ storeOf \in topologies
        /\ recording = TRUE
        /\ ds = [s \in Stores |-> IF s = 1 THEN "ready" ELSE "nil"]
        /\ driverName = [s \in Stores |-> IF s = 1 THEN r.driverName ELSE <<>>]
        /\ dataSourceName =
               [s \in Stores |-> IF s = 1 THEN r.dataSourceName ELSE <<>>]
        /\ configLock = [s \in Stores |-> 0]
        /\ Configurations = { Row(1, boot, 0, "TRUE") }
        /\ ConfigurationFiles = {}
        /\ clock = 0
        /\ pc = [t \in Threads |-> "idle"]
        /\ call = [t \in Threads |-> NoCall]
        /\ tx = [t \in Threads |-> NoTx]
        /\ handed = [t \in Threads |-> NoHanded]
        /\ last = [NoLast EXCEPT !.t = 1, !.op = "New", !.ret = "nil",
                                 !.handed = [data |-> boot, needsSave |-> TRUE]]
        /\ plog = [NoPersist EXCEPT !.t = 1, !.value = boot, !.ret = "nil",
                                    !.txEnd = "commit", !.rollback = "ErrTxDone",
                                    !.inserted = TRUE]

FileOps(t, contents, times) ==
    \/ \E name \in Names, data \in contents, at \in times, ok \in BOOLEAN :
           SetFile(t, name, data, at, ok)
    \/ \E ok \in BOOLEAN : SetFileInsert(t, ok)
    \/ \E name \in Names, ok \in BOOLEAN : GetFile(t, name, ok)
    \/ \E name \in Names, ok \in BOOLEAN : HasFile(t, name, ok)
    \/ \E name \in Names, ok \in BOOLEAN : RemoveFile(t, name, ok)

\* The file operations, called by the threads of one store within one
\* millisecond, with short contents
InitFiles == InitFilesWith({OneStore})

NextFiles == \E t \in Threads : FileOps(t, ShortData, {0})

SpecFiles == InitFiles /\ [][NextFiles]_vars

\* The file operations, called one at a time, with contents of every length
NextFilesSeq ==
    \/ FileOps(1, FileData, 0..MaxClock)
    \/ Tick

SpecFilesSeq == InitFiles /\ [][NextFilesSeq]_vars

----------------------------------------------------------------------------
(* Claims *)

\* C1. Single-active invariant: in every committed state of Configurations
\* reachable by any interleaving of persist calls of concurrent writers, at most
\* one row has Active = TRUE, so no reader observes two active rows.
C1_SingleActive == Cardinality(ActiveRows(Configurations)) <= 1

\* two writers race: one holds an uncommitted INSERT of an active row while the
\* other has run its UPDATE and is about to INSERT its own
C1_Witness ==
    \E t, u \in Threads :
        /\ t # u
        /\ TxOpen(t) /\ tx[t].ins
        /\ pc[u] = "p_insert"

\* C2. Never zero after the first write: once a persist has committed a row,
\* every committed state (what a reader sees, also while another persist is
\* between its UPDATE and its Commit, and after a rolled-back persist) has
\* exactly one active row.
C2_NeverZeroAfterFirstWrite ==
    Configurations # {} => Cardinality(ActiveRows(Configurations)) = 1

\* a persist has deactivated the active row inside its transaction and has not
\* committed yet
C2_Witness ==
    \E t \in Threads :
        /\ pc[t] \in {"p_insert", "p_commit"}
        /\ tx[t].deact # {}
        /\ tx[t].deact \subseteq ActiveIds

\* C3. Atomic swap on failure: when persist fails at its INSERT or its Commit,
\* after its deactivating UPDATE ran, the table is exactly as it was before the
\* call, so a following Load reads the row that was active before the call
\* (calls made one at a time).
C3_AtomicSwapOnFailure ==
    (pc[1] = "idle" /\ plog.ret \in {"ErrInsert", "ErrCommit"})
        => /\ Configurations = plog.pre
           /\ tx[1] = NoTx
           /\ SelectActiveValue = ActiveValue(plog.pre)

\* a persist that had deactivated the active row failed at its INSERT or Commit
C3_Witness ==
    /\ pc[1] = "idle"
    /\ plog.ret \in {"ErrInsert", "ErrCommit"}
    /\ plog.undone
    /\ ActiveRows(plog.pre) # {}

PersistPcs ==
    {"p_begin", "p_query", "p_update", "p_update_wait", "p_insert", "p_commit"}

\* a step in which the persist call of the one thread returns, being a call
\* with the serialized output of the persist call before it, which returned
\* nil; the database answers every request of the call
SecondOfTwoIdentical ==
    /\ pc[1] \in PersistPcs
    /\ pc'[1] = "idle"
    /\ plog.ret = "nil"
    /\ plog.value = marshalConfig(call[1].cfg)
    /\ ds[1] # "closed"
    /\ ~plog'.fault

\* C4 as amended. Dedup idempotence, calls made one at a time: the second of
\* two consecutive persist calls with byte-identical serialized output returns
\* success from its dedup check, inserts no row and leaves the table (so the
\* active row's Id and CreateAt) as it was; the two calls add one row in total
\* when the first call inserted one, and none when it was a no-op itself.
C4_DedupIdempotence ==
    [][ /\ SecondOfTwoIdentical =>
            /\ plog'.ret = "nil"
            /\ pc[1] = "p_query"
            /\ ~plog'.inserted
            /\ Configurations' = Configurations
            /\ Cardinality(Configurations') =
                   Cardinality(plog.pre) + (IF plog.inserted THEN 1 ELSE 0)
        /\ pc[1] \in {"p_begin", "p_query"} => Configurations' = Configurations
      ]_vars

\* C4 as stated: the two calls add exactly one row in total
C4_ExactlyOneRowAdded ==
    [][ SecondOfTwoIdentical =>
            Cardinality(Configurations') = Cardinality(plog.pre) + 1 ]_vars

\* the second of two identical calls has returned success, the first having
\* inserted a row
C4_Witness ==
    /\ plog.ret = "nil"
    /\ plog.txEnd = "rollback"
    /\ plog.pre # {}
    /\ plog.value = ActiveValue(plog.pre)
    /\ plog.pre = Configurations
    /\ Cardinality(Configurations) >= 2

\* C5. Bootstrap, calls made one at a time: Load on a table with no active row
\* builds the default configuration with SqlSettings.DriverName and DataSource
\* set to the store's driverName and dataSourceName and passes it on with
\* needsSave = true; after that Load returned nil exactly one row exists, it is
\* active and holds those bytes.
C5_Bootstrap ==
    /\ pc[1] = "cs_load" =>
          (handed[1].needsSave <=> ActiveRows(Configurations) = {})
    /\ (pc[1] = "cs_load" /\ handed[1].needsSave) =>
          handed[1].data =
              marshalConfig([DefaultCfg EXCEPT !.DriverName = driverName[1],
                                               !.DataSource = dataSourceName[1]])
    /\ (last.op \in {"New", "Load"} /\ last.ret = "nil" /\ last.handed.needsSave) =>
          /\ Cardinality(Configurations) = 1
          /\ \A r \in Configurations :
                /\ r.Active = "TRUE"
                /\ r.Value = last.handed.data
                /\ r.Value.doc.DriverName = driverName[1]
                /\ r.Value.doc.DataSource = dataSourceName[1]

\* a Load that found no active row has returned nil
C5_Witness ==
    /\ last.op = "New"
    /\ last.ret = "nil"
    /\ last.handed.needsSave
    /\ Configurations # {}

\* C8. A descriptor without "://" is rejected: parseDSN returns an error and
\* store construction fails without opening a database handle.
C8_NoSeparatorRejected ==
    Index(dsn, Separator) = 0 =>
        /\ ds[1] = "nil"
        /\ last.ret \in {"none", "ErrDSN"}

\* the descriptor is scheme://rest, scheme being what precedes the first "://"
IsSchemeRest(scheme, rest) ==
    /\ dsn = scheme \o Separator \o rest
    /\ \A i \in 1..(Len(scheme) - 2) : SubSeq(scheme, i, i + 2) # Separator

Prefixes == { SubSeq(dsn, 1, n) : n \in 0..Len(dsn) }
Suffixes == { SubSeq(dsn, n, Len(dsn)) : n \in 1..(Len(dsn) + 1) }

Constructed == ds[1] # "nil" \/ last.op = "New"

\* C9. Descriptor parsing asymmetry: once NewDatabaseStore has parsed a
\* descriptor scheme://rest, the store has (mysql, rest) for scheme mysql and
\* (postgres, the whole descriptor) for scheme postgres, and construction has
\* failed on the descriptor for every other scheme.
C9_ParseAsymmetry ==
    \A scheme \in Prefixes, rest \in Suffixes :
        (Constructed /\ IsSchemeRest(scheme, rest)) =>
            IF scheme = mysqlScheme
            THEN /\ driverName[1] = mysqlScheme
                 /\ dataSourceName[1] = rest
                 /\ last.ret # "ErrDSN"
            ELSE IF scheme = postgresScheme
            THEN /\ driverName[1] = postgresScheme
                 /\ dataSourceName[1] = dsn
                 /\ last.ret # "ErrDSN"
            ELSE /\ last.ret = "ErrDSN"
                 /\ ds[1] = "nil"
                 /\ driverName[1] = <<>>

\* a mysql descriptor whose remainder is a second separator has been parsed
C9_Witness ==
    /\ Constructed
    /\ IsSchemeRest(mysqlScheme, Separator)
    /\ dataSourceName[1] = Separator

\* C10. Close excludes in-flight Load and Set: no database operation of a Load
\* or Set that started before the pool was closed is still in progress once
\* the pool is closed.
C10_CloseExcludesInFlight ==
    \A t \in Threads :
        pc[t] \in {"load_scan", "p_query", "p_update", "p_update_wait",
                   "p_insert", "p_commit"}
            => ds[storeOf[t]] # "closed"

\* C6. File upsert, calls made one at a time: a SetFile(n, Y) whose data passes
\* the length check and whose statements the database executes succeeds,
\* whatever SetFile(n, X) came before it (Y = X included), and leaves exactly
\* one row named n, with Data Y; after RemoveFile(n) no row is named n; HasFile
\* tells whether a row has the name.
C6_FileUpsert ==
    (pc[1] = "idle" /\ ~last.fault /\ ds[1] = "ready") =>
        /\ (last.op = "SetFile" /\ last.ret # "ErrLength") =>
              /\ last.ret = "nil"
              /\ Cardinality(FilesNamed(last.name)) = 1
              /\ \A r \in FilesNamed(last.name) : r.Data = last.data
        /\ last.op = "RemoveFile" =>
              /\ last.ret = "nil"
              /\ FilesNamed(last.name) = {}
        /\ last.op = "HasFile" =>
              /\ last.ret = "nil"
              /\ last.found <=> FilesNamed(last.name) # {}
        /\ \A n \in Names : Cardinality(FilesNamed(n)) <= 1

\* C7. SetFile size limit, calls made one at a time: on mysql, a step of
\* SetFile with len(data) > MaxWriteLength returns the length error at once and
\* leaves ConfigurationFiles unchanged; a shorter or equal length passes the
\* check, as does every length on postgres.
C7_SetFileSizeLimit ==
    [][ (/\ pc[1] = "idle"
         /\ ~Tick
         /\ pc'[1] = "sf_insert" \/ last'.op = "SetFile")
        => LET data == IF pc'[1] = "sf_insert" THEN call'[1].data ELSE last'.data
           IN  IF driverName[1] = mysqlScheme /\ data.len > MaxWriteLength
               THEN /\ pc'[1] = "idle"
                    /\ last'.ret = "ErrLength"
                    /\ ConfigurationFiles' = ConfigurationFiles
               ELSE \/ pc'[1] = "sf_insert"
                    \/ last'.ret \in {"nil", "ErrUpdate"}
      ]_vars

\* SetFile has refused data of more than MaxWriteLength bytes on mysql
C7_Witness ==
    /\ last.op = "SetFile"
    /\ last.ret = "ErrLength"
    /\ last.data.len > MaxWriteLength
    /\ driverName[1] = mysqlScheme

\* C11. Name uniqueness under concurrency: in every interleaving of concurrent
\* SetFile and RemoveFile calls, two SetFile calls racing to create the same
\* new name included, ConfigurationFiles never holds two rows with one Name.
C11_NameUnique ==
    \A n \in Names : Cardinality(FilesNamed(n)) <= 1

\* two SetFile calls for one name, with different data, have both seen their
\* UPDATE affect no row and are both about to INSERT
C11_Witness ==
    /\ pc[1] = "sf_insert"
    /\ pc[2] = "sf_insert"
    /\ call[1].name = call[2].name
    /\ call[1].data # call[2].data

\* C12. Append-only history: no step of any persist call deletes a row of
\* Configurations or changes the Id, Value or CreateAt of a row; the only
\* change to a row is its Active marker going from TRUE to NULL; and a step
\* that changes the table (the commit of an effective persist) adds exactly
\* one row, with an Id no row had.
C12_AppendOnly ==
    [][ /\ \A r \in Configurations :
              \E q \in Configurations' :
                  /\ q.Id = r.Id
                  /\ q.Value = r.Value
                  /\ q.CreateAt = r.CreateAt
                  /\ q.Active = r.Active \/ (r.Active = "TRUE" /\ q.Active = "NULL")
        /\ Configurations' # Configurations =>
              /\ Cardinality(Configurations') = Cardinality(Configurations) + 1
              /\ Cardinality({ q.Id : q \in Configurations' }) =
                     Cardinality({ r.Id : r \in Configurations }) + 1
      ]_vars

\* an effective persist has committed over an earlier row: the earlier row is
\* kept, deactivated, beside the new active one
C12_Witness ==
    /\ \E r \in Configurations : r.Active = "NULL"
    /\ ActiveRows(Configurations) # {}

\* C13. Dedup under concurrent writers: in every interleaving of concurrent
\* persist calls, no commit inserts an active row whose Value is byte-identical
\* to the Value of the row that was active immediately before that commit.
C13_DedupUnderConcurrency ==
    [][ \A q \in Configurations' \ Configurations :
            q.Active = "TRUE" => ~BytesEqual(q.Value, ActiveValue(Configurations))
      ]_vars

\* C14. Two-step upsert race: a SetFile whose UPDATE affected no row and whose
\* INSERT then finds a row of its name (another SetFile created it in between)
\* fails with the duplicate-key error and leaves the first inserter's row as it
\* is; a SetFile that no other call overlaps succeeds.
C14_UpsertRace ==
    [][ \A t \in Threads :
          (/\ pc[t] = "sf_insert"
           /\ pc'[t] = "idle"
           /\ ds[storeOf[t]] = "ready"
           /\ ~last'.fault)
          => /\ FilesNamed(call[t].name) # {} =>
                   /\ last'.ret = "ErrInsert"
                   /\ ConfigurationFiles' = ConfigurationFiles
             /\ call[t].alone => last'.ret = "nil"
      ]_vars

\* the race has happened: a SetFile has returned the duplicate-key error and
\* the row of its name holds the data of the other, first inserter
C14_Witness ==
    /\ last.op = "SetFile"
    /\ last.ret = "ErrInsert"
    /\ ~last.fault
    /\ \E r \in FilesNamed(last.name) : r.Data # last.data

\* C15. Load with an existing active row: whenever an active row exists, Load
\* hands exactly that row's Value to the orchestrator with needsSave = false and
\* synthesizes no defaults, for every stored Value, the empty one included
\* (calls made one at a time).
C15_LoadExisting ==
    (pc[1] = "cs_load" /\ ActiveRows(Configurations) # {}) =>
        /\ handed[1].data = SelectActiveValue
        /\ ~handed[1].needsSave

\* C16. persist's size limit precedes all database work: on mysql, persist of
\* a configuration that serializes to more than MaxWriteLength bytes returns
\* the length error in its first step, with no transaction begun and the table
\* as it was; a length up to MaxWriteLength goes on to Beginx, as does every
\* length on postgres (calls made one at a time).
C16_PersistSizeLimit ==
    [][ (pc[1] = "p_begin" /\ pc'[1] # "p_begin") =>
          IF /\ driverName[1] = mysqlScheme
             /\ ByteLen(marshalConfig(call[1].cfg)) > MaxWriteLength
          THEN /\ pc'[1] = "idle"
               /\ plog'.ret = "ErrLength"
               /\ plog'.txEnd = "none"
               /\ tx[1] = NoTx /\ tx'[1] = NoTx
               /\ Configurations' = Configurations
          ELSE \/ pc'[1] = "p_query" /\ TxOpen(1)'
               \/ pc'[1] = "idle" /\ plog'.ret = "ErrBegin"
      ]_vars

\* on mysql a persist has refused a configuration that is too long, with an
\* active row in the table
C16_Witness ==
    /\ plog.ret = "ErrLength"
    /\ ByteLen(plog.value) > MaxWriteLength
    /\ driverName[1] = mysqlScheme
    /\ ActiveRows(Configurations) # {}

\* C17. persist's result is not altered by the rollback: persist returns nil
\* exactly when its dedup check found the same bytes or its Commit succeeded,
\* and otherwise the error of the step that failed first (begin, dedup query,
\* deactivate, insert, commit), whatever the deferred Rollback returns
\* (calls made one at a time).
C17_ResultNotAlteredByRollback ==
    [][ (pc[1] \in PersistPcs /\ pc'[1] = "idle") =>
          /\ last'.ret = plog'.ret
          /\ plog'.ret =
                CASE pc[1] = "p_begin" ->
                       IF checkLength(driverName[1],
                                      ByteLen(marshalConfig(call[1].cfg)))
                       THEN "ErrBegin" ELSE "ErrLength"
                  [] pc[1] = "p_query" ->
                       IF ~plog'.fault /\ BytesEqual(SelectActiveValue, tx[1].value)
                       THEN "nil" ELSE "ErrQuery"
                  [] pc[1] \in {"p_update", "p_update_wait"} -> "ErrUpdate"
                  [] pc[1] = "p_insert" -> "ErrInsert"
                  [] pc[1] = "p_commit" ->
                       IF Configurations' = Committed(1) /\ ~plog'.fault
                       THEN "nil" ELSE "ErrCommit"
          /\ (pc[1] = "p_commit" /\ plog'.ret = "nil") =>
                plog'.rollback = "ErrTxDone"
      ]_vars

\* a persist whose INSERT failed has returned, its deferred Rollback having
\* failed too
C17_Witness ==
    /\ plog.ret = "ErrInsert"
    /\ plog.rollback = "ErrRollback"

\* C18. Absent-name file operations: for a name no row of ConfigurationFiles
\* has, GetFile returns an error and no data, HasFile returns (false, nil) and
\* RemoveFile returns nil; none of the three changes the table (calls made one
\* at a time, the database executing the statement).
C18_AbsentName ==
    [][ (/\ pc[1] = "idle" /\ pc'[1] = "idle"
         /\ ~Tick
         /\ ds[1] = "ready"
         /\ ~last'.fault
         /\ last'.op \in {"GetFile", "HasFile", "RemoveFile"}
         /\ FilesNamed(last'.name) = {})
        => /\ last'.op = "GetFile" =>
                 /\ last'.ret = "ErrScan"
                 /\ last'.data = NoData
                 /\ ~last'.found
           /\ last'.op = "HasFile" =>
                 /\ last'.ret = "nil"
                 /\ ~last'.found
           /\ last'.op = "RemoveFile" => last'.ret = "nil"
           /\ ConfigurationFiles' = ConfigurationFiles
      ]_vars

\* GetFile has returned its error for a name that has no row, another name
\* having one
C18_Witness ==
    /\ last.op = "GetFile"
    /\ last.ret = "ErrScan"
    /\ ~last.fault
    /\ FilesNamed(last.name) = {}
    /\ ConfigurationFiles # {}
    /\ ds[1] = "ready"

\* C19. No transaction is left open by persist: a transaction is open exactly
\* while persist is between its Beginx and its return; when a persist that had
\* begun one has returned (dedup return, failed dedup query, failed UPDATE,
\* INSERT or Commit, successful Commit), the transaction was ended once: by the
\* Commit when persist reached it (the deferred Rollback then returning
\* sql.ErrTxDone), or else by the deferred Rollback; and unless the Commit
\* succeeded the table is as it was at Beginx (calls made one at a time).
C19_NoOpenTransaction ==
    /\ \A t \in Threads :
          TxOpen(t) <=> pc[t] \in PersistPcs \ {"p_begin"}
    /\ (pc[1] = "idle" /\ plog.txEnd = "commit") =>
          /\ plog.ret = "nil"
          /\ plog.rollback = "ErrTxDone"
    /\ (pc[1] = "idle" /\ plog.txEnd = "rollback") =>
          /\ IF plog.ret = "ErrCommit"
             THEN plog.rollback = "ErrTxDone"
             ELSE plog.rollback \in RollbackOutcomes
          /\ Configurations = plog.pre
    /\ (pc[1] = "idle" /\ plog.txEnd = "none") =>
          plog.ret \in {"none", "ErrLength", "ErrBegin"}

\* a deduplicated persist has returned nil, having begun a transaction
C19_Witness ==
    /\ pc[1] = "idle"
    /\ plog.ret = "nil"
    /\ plog.txEnd = "rollback"
    /\ tx[1] = NoTx

\* C20. Read-your-write, with no concurrent writer: after persist(cfg) returned
\* nil, having inserted a row or deduplicated, exactly one row is active and
\* its Value is the serialization of cfg; a Load that follows hands exactly
\* those bytes to the orchestrator with needsSave = false.
C20_ReadYourWrite ==
    /\ (pc[1] = "idle" /\ plog.ret = "nil") =>
          /\ Cardinality(ActiveRows(Configurations)) = 1
          /\ \A r \in ActiveRows(Configurations) : BytesEqual(r.Value, plog.value)
    /\ (pc[1] = "cs_load" /\ plog.ret = "nil") =>
          /\ BytesEqual(handed[1].data, plog.value)
          /\ ~handed[1].needsSave

\* a Load has read the row back after a Set that replaced the active row
C20_Witness ==
    /\ pc[1] = "cs_load"
    /\ call[1].op = "Load"
    /\ plog.ret = "nil"
    /\ plog.txEnd = "commit"
    /\ Cardinality(Configurations) >= 2

====
